---- MODULE Spec2Model ----
(***************************************************************************)
(* A model of the logging MCP server (src/src/index.ts): the tools/call    *)
(* request handler with its write-log and read-logs branches, the          *)
(* diagnostic logger debugLog, the files under the log directory and the   *)
(* fire-and-forget mirror to the remote collector.                         *)
(*                                                                         *)
(* Text is modelled as a sequence of atoms.  An atom is one character      *)
(* ("[", " ", "\n", "a", ...) or, for fixed phrases the program itself     *)
(* prints, an opaque run of characters holding no line break, no bracket,  *)
(* no escape character and at least one non-blank character.               *)
(***************************************************************************)
EXTENDS Integers, Sequences, FiniteSets, TLC

\* ------------------------------------------------------------------ bounds

\* Number of tools/call requests the transport delivers under Spec.
MaxRequests == 2

\* Number of requests on svc.log the transport delivers under SpecTail.
MaxTail == 3

\* ------------------------------------------------------------ optional values

\* An optional argument: <<>> when the request omits it, <<v>> when it gives v.
None == <<>>
Some(v) == <<v>>
IsSome(o) == o # <<>>
Val(o) == o[1]

\* ------------------------------------------------------------------- text

NL == "\n"
\* The character U+001B.
ESC == "ESC"
\* What String.prototype.trim removes (the ones the model's texts can hold).
WhiteSpace == {" ", "\t", "\r", NL}
Digits == {"0", "1", "2", "3", "4", "5", "6", "7", "8", "9"}

\* enum LogLevel
LogLevel == {"INFO", "WARN", "ERROR", "DEBUG"}

\* The characters of a level name, as the template literal `${level}` prints it.
LevelText(level) ==
  CASE level = "INFO" -> <<"I", "N", "F", "O">>
    [] level = "WARN" -> <<"W", "A", "R", "N">>
    [] level = "ERROR" -> <<"E", "R", "R", "O", "R">>
    [] level = "DEBUG" -> <<"D", "E", "B", "U", "G">>
    [] OTHER -> <<level>>

\* logLevelMapping: the winston level of a LogLevel.
logLevelMapping(level) ==
  CASE level = "INFO" -> "info"
    [] level = "WARN" -> "warn"
    [] level = "ERROR" -> "error"
    [] level = "DEBUG" -> "debug"

\* new Date().toISOString(): one opaque atom (digits, '-', ':', '.', 'T', 'Z').
NowISO == <<"NOW">>

\* `[${logTimestamp}] [${level}] ${message}` without the trailing line break.
FormatLine(logTimestamp, level, message) ==
  <<"[">> \o logTimestamp \o <<"]", " ", "[">> \o LevelText(level) \o <<"]", " ">> \o message

\* `[${logTimestamp}] [${level}] ${message}\n`
FormatEntry(logTimestamp, level, message) ==
  FormatLine(logTimestamp, level, message) \o <<NL>>

\* The positions of the line breaks of s, in increasing order.
Breaks(s) == SelectSeq([i \in 1..Len(s) |-> i], LAMBDA i : s[i] = NL)

\* The pieces of s between the line breaks at the positions idx.
Pieces(s, idx) ==
  [k \in 1..(Len(idx) + 1) |->
     SubSeq(s, IF k = 1 THEN 1 ELSE idx[k - 1] + 1,
               IF k > Len(idx) THEN Len(s) ELSE idx[k] - 1)]

\* fileContent.split("\n"): the pieces between line breaks (always at least
\* one; a text that ends with a line break has an empty last piece).
SplitLines(s) == CHOOSE pieces \in {Pieces(s, idx) : idx \in {Breaks(s)}} : TRUE

\* The test of line 471 left out: every line is kept.
NonBlankAlways(line) == TRUE

\* line.trim() !== ""
NonBlank(line) == \E i \in 1..Len(line) : line[i] \notin WhiteSpace

\* String.prototype.includes
Includes(line, pat) ==
  \E i \in 1..(Len(line) - Len(pat) + 1) : SubSeq(line, i, i + Len(pat) - 1) = pat

\* `[${level}]`
LevelTag(level) == <<"[">> \o LevelText(level) \o <<"]">>

\* A number is kept as twice its value, so that halves (0.5, 1.5) are numbers
\* of the model: 2 is the number 1, 1 is the number 0.5.
Num(n) == 2 * n

\* ToIntegerOrInfinity(-x) for x > 0, negated: the integer part of x.
IntPart(x2) == x2 \div 2

\* Array.prototype.slice(-maxEntries) for maxEntries > 0: relativeStart is
\* ToIntegerOrInfinity(-maxEntries); when it is negative the slice starts at
\* max(len + relativeStart, 0), and when it is (minus) zero at min(0, len) = 0.
SliceLast(s, maxEntries2) ==
  LET n == IntPart(maxEntries2)
      k == IF n > 0
             THEN (IF Len(s) - n > 0 THEN Len(s) - n ELSE 0)
             ELSE 0
  IN SubSeq(s, k + 1, Len(s))

\* The length of the match of /\u001b\[\d+m/ starting at position i, 0 if none.
RECURSIVE DigitRun(_, _)
DigitRun(s, i) ==
  IF i <= Len(s) /\ s[i] \in Digits THEN 1 + DigitRun(s, i + 1) ELSE 0

AnsiMatch(s, i) ==
  IF i + 1 <= Len(s) /\ s[i] = ESC /\ s[i + 1] = "["
    THEN LET d == DigitRun(s, i + 2)
         IN IF d > 0 /\ i + 2 + d <= Len(s) /\ s[i + 2 + d] = "m" THEN d + 3 ELSE 0
    ELSE 0

\* str.replace(/\u001b\[\d+m/g, '')
RECURSIVE StripFrom(_, _)
StripFrom(s, i) ==
  IF i > Len(s) THEN <<>>
  ELSE LET m == AnsiMatch(s, i)
       IN IF m > 0 THEN StripFrom(s, i + m) ELSE <<s[i]>> \o StripFrom(s, i + 1)

\* A text without the escape character has no match and is returned as it is.
stripAnsiCodes(str) ==
  IF \A i \in 1..Len(str) : str[i] # ESC THEN str ELSE StripFrom(str, 1)

\* Array.prototype.map(stripAnsiCodes)
MapStrip(lines) == [i \in 1..Len(lines) |-> stripAnsiCodes(lines[i])]

\* Array.prototype.join("\n")
RECURSIVE JoinRange(_, _, _)
JoinRange(lines, i, j) ==
  IF i > j THEN <<>>
  ELSE IF i = j THEN lines[i]
  ELSE JoinRange(lines, i, (i + j) \div 2) \o <<NL>> \o JoinRange(lines, (i + j) \div 2 + 1, j)

JoinLines(lines) == JoinRange(lines, 1, Len(lines))

\* ------------------------------------------------------------------ paths

\* A path is the sequence of its segments below the file system root.
\* __dirname is /app/dist, so path.resolve(__dirname, "../logs") is /app/logs.
LOG_DIR == <<"app", "logs">>
\* path.join(LOG_DIR, "application.log")
DEFAULT_LOG_FILE == LOG_DIR \o <<"application.log">>
\* path.join(LOG_DIR, "graylog_debug.log")
GRAYLOG_DEBUG_FILE == LOG_DIR \o <<"graylog_debug.log">>

\* The directories that exist: the module's directory tree and, after the
\* start-up check `if (!fs.existsSync(LOG_DIR)) fs.mkdirSync(LOG_DIR, ...)`,
\* the log directory.  No request creates a directory.
Dirs == {<<>>, <<"app">>, <<"app", "dist">>, LOG_DIR}

Parent(p) == SubSeq(p, 1, Len(p) - 1)

\* path.resolve(base, name) for a relative name: the segments of name are
\* applied to base one by one, "." and "" staying in place, ".." going up.
RECURSIVE Normalize(_, _)
Normalize(acc, segs) ==
  IF segs = <<>> THEN acc
  ELSE IF Head(segs) \in {".", ""} THEN Normalize(acc, Tail(segs))
  ELSE IF Head(segs) = ".." THEN Normalize(Parent(acc), Tail(segs))
  ELSE Normalize(Append(acc, Head(segs)), Tail(segs))

PathResolve(base, name) == Normalize(base, name)

\* `logFile ? path.resolve(LOG_DIR, logFile) : DEFAULT_LOG_FILE`: an omitted
\* name and the empty name (no segment at all) are both falsy.
ResolveLogFile(logFile) ==
  IF IsSome(logFile) /\ Val(logFile) # <<>>
    THEN PathResolve(LOG_DIR, Val(logFile))
    ELSE DEFAULT_LOG_FILE

\* The segments as text, each after a separator: "/app/logs/svc.log".
RECURSIVE SegmentsText(_)
SegmentsText(p) == IF p = <<>> THEN <<>> ELSE <<"/", Head(p)>> \o SegmentsText(Tail(p))

\* The path as text, each segment one atom; the root directory is "/".
PathText(p) == IF p = <<>> THEN <<"/">> ELSE SegmentsText(p)

\* ------------------------------------------------------------ file system

\* A file system state maps the path of every existing regular file to its
\* content.  `fault` tells which file system calls fail for a reason outside
\* the program (disk full, I/O error) while the request at hand is handled:
\* a set of pairs <<line, room>>, the source line of index.ts of the call
\* and the number of characters the device still takes when the call is made.

\* The call of `line` fails from outside.
Fails(fault, line) == \E f \in fault : f[1] = line

\* The characters the device still takes at the failing call of `line`.
Room(fault, line) == IF Fails(fault, line) THEN (CHOOSE f \in fault : f[1] = line)[2] ELSE 0

\* The calls of `lines` fail on a device that takes nothing more.
Full(lines) == {<<l, 0>> : l \in lines}

\* The lines of the calls that fail.
FailingLines(fault) == {f[1] : f \in fault}

\* A component of the path p above its last one is a regular file.
BelowFile(fs, p) == \E n \in 1..(Len(p) - 1) : SubSeq(p, 1, n) \in DOMAIN fs

\* fs.existsSync(p)
ExistsSync(fs, p) == p \in DOMAIN fs \/ p \in Dirs

\* The error code of fs.appendFileSync(p, ...) called at `line`, "" if none.
AppendError(fs, p, line, fault) ==
  IF p \in Dirs THEN "EISDIR"
  ELSE IF BelowFile(fs, p) THEN "ENOTDIR"
  ELSE IF Parent(p) \notin Dirs THEN "ENOENT"
  ELSE IF Fails(fault, line) THEN "ENOSPC"
  ELSE ""

\* The file system after a successful fs.appendFileSync(p, data, "utf8"):
\* the file is created when absent, and data is put after its content.
AppendFileSync(fs, p, data) ==
  [q \in DOMAIN fs \cup {p} |->
     IF q = p THEN (IF p \in DOMAIN fs THEN fs[p] ELSE <<>>) \o data ELSE fs[q]]

\* The file system after fs.appendFileSync(p, data, "utf8") that ended with
\* the error `code` ("" if none).  EISDIR, ENOTDIR and ENOENT are errors of
\* open: no file is touched.  ENOSPC is an error of write, made after
\* open(p, "a") has succeeded: the file is created when absent, and the
\* leading part of data that the device still takes (`room` characters,
\* never all of data) is put after its content.
AppendFileSyncEnding(fs, p, data, code, room) ==
  IF code = "" THEN AppendFileSync(fs, p, data)
  ELSE IF code = "ENOSPC"
    THEN AppendFileSync(fs, p, SubSeq(data, 1, IF room < Len(data) THEN room
                                               ELSE Len(data) - 1))
  ELSE fs

\* The error code of fs.readFileSync(p, "utf8") called at `line`, "" if none.
ReadError(fs, p, line, fault) ==
  IF p \in Dirs THEN "EISDIR"
  ELSE IF BelowFile(fs, p) THEN "ENOTDIR"
  ELSE IF p \notin DOMAIN fs THEN "ENOENT"
  ELSE IF Fails(fault, line) THEN "EIO"
  ELSE ""

\* ----------------------------------------------------------------- errors

\* A thrown value.  kind: "fs" (a file system error with its code, the
\* system call that failed and, when that call is open, the path), "zod" (a
\* ZodError with its issues), "invalidArgs" (the Error the handler builds
\* from a ZodError), "unknownTool" (the Error for an unknown name).
MkError(kind, code, syscall, path, issues, tool) ==
  [kind |-> kind, code |-> code, syscall |-> syscall, path |-> path,
   issues |-> issues, tool |-> tool]

\* The error of a failed fs.appendFileSync(p, ...): the open fails on a
\* directory, below a regular file or in a missing directory, the write
\* fails on a full disk.
AppendFsError(code, p) ==
  IF code \in {"EISDIR", "ENOTDIR", "ENOENT"}
    THEN MkError("fs", code, "open", p, <<>>, "")
    ELSE MkError("fs", code, "write", <<>>, <<>>, "")

\* The error of a failed fs.readFileSync(p, "utf8"): the open fails on a
\* missing file or below a regular file, the read fails on a directory or
\* on an I/O error.
ReadFsError(code, p) ==
  IF code \in {"ENOENT", "ENOTDIR"}
    THEN MkError("fs", code, "open", p, <<>>, "")
    ELSE MkError("fs", code, "read", <<>>, <<>>, "")

ZodError(issues) == MkError("zod", "", "", <<>>, issues, "")
UnknownToolError(name) == MkError("unknownTool", "", "", <<>>, <<>>, name)
\* new Error(`Invalid arguments: ${error.errors.map((e) =>
\*   `${e.path.join(".")}: ${e.message}`).join(", ")}`): every issue of the
\* ZodError, in order, with its path and message.
InvalidArgumentsError(error) == MkError("invalidArgs", "", "", <<>>, error.issues, "")

NoError == MkError("", "", "", <<>>, <<>>, "")

\* ------------------------------------------------------------- validation

\* An issue of a ZodError: its code, the path of the field, its message,
\* the value received (invalid_enum_value), the type expected and the type
\* of the value of a too_small issue.
Issue(code, path, message, received, type) ==
  [code |-> code, path |-> path, message |-> message, received |-> received, type |-> type]

\* z.nativeEnum(LogLevel), given a string
LevelIssues(level) ==
  IF IsSome(level) /\ Val(level) \notin LogLevel
    THEN <<Issue("invalid_enum_value", "level",
                 <<"Invalid enum value. Expected 'INFO' | 'WARN' | 'ERROR' | 'DEBUG', received '",
                   Val(level), "'">>,
                 Val(level), "")>>
    ELSE <<>>

\* z.string().min(1)
MessageIssues(message) ==
  IF ~IsSome(message)
    THEN <<Issue("invalid_type", "message", <<"Required">>, "undefined", "string")>>
  ELSE IF Len(Val(message)) < 1
    THEN <<Issue("too_small", "message",
                 <<"String must contain at least 1 character(s)">>, "", "string")>>
  ELSE <<>>

\* z.number().positive(), given a number
MaxEntriesIssues(maxEntries) ==
  IF IsSome(maxEntries) /\ ~(Val(maxEntries) > 0)
    THEN <<Issue("too_small", "maxEntries",
                 <<"Number must be greater than 0">>, "", "number")>>
    ELSE <<>>

\* The number ReadLogsArgumentsSchema puts for an omitted maxEntries.
DefaultMaxEntries == 10

\* The write-log schema with DEBUG as the default of level.
WriteLogParseDefaultDebug(args) ==
  [issues |-> LevelIssues(args.level) \o MessageIssues(args.message),
   level |-> IF IsSome(args.level) THEN Val(args.level) ELSE "DEBUG",
   message |-> IF IsSome(args.message) THEN Val(args.message) ELSE <<>>,
   timestamp |-> args.timestamp,
   logFile |-> args.logFile]

\* WriteLogArgumentsSchema.parse(args): the issues in the order of the
\* schema's keys, and the parsed value (level defaulted to INFO).
WriteLogParse(args) ==
  [issues |-> LevelIssues(args.level) \o MessageIssues(args.message),
   level |-> IF IsSome(args.level) THEN Val(args.level) ELSE "INFO",
   message |-> IF IsSome(args.message) THEN Val(args.message) ELSE <<>>,
   timestamp |-> args.timestamp,
   logFile |-> args.logFile]

\* ReadLogsArgumentsSchema.parse(args): maxEntries defaulted to 10.
ReadLogsParse(args) ==
  [issues |-> MaxEntriesIssues(args.maxEntries) \o LevelIssues(args.level),
   maxEntries |-> IF IsSome(args.maxEntries) THEN Val(args.maxEntries)
                  ELSE Num(DefaultMaxEntries),
   level |-> args.level,
   logFile |-> args.logFile]

\* ------------------------------------------------------- diagnostic texts

\* A character of a string as JSON.stringify prints it inside quotes.
JsonChar(c) ==
  CASE c = NL -> <<"\\", "n">>
    [] c = "\t" -> <<"\\", "t">>
    [] c = "\r" -> <<"\\", "r">>
    [] c = ESC -> <<"\\", "u", "0", "0", "1", "b">>
    [] c = "\"" -> <<"\\", "\"">>
    [] c = "\\" -> <<"\\", "\\">>
    [] OTHER -> <<c>>

RECURSIVE JsonEscape(_)
JsonEscape(str) ==
  IF str = <<>> THEN <<>> ELSE JsonChar(Head(str)) \o JsonEscape(Tail(str))

\* n spaces.
Spaces(n) == [i \in 1..n |-> " "]

\* A JSON property line at the given indent: `"key": value` and a comma
\* unless it is the last of its object.
JsonLine(indent, key, value, isLast) ==
  Spaces(indent) \o <<"\"", key, "\"", ":", " ">> \o value
    \o (IF isLast THEN <<>> ELSE <<",">>) \o <<NL>>

\* A string as JSON.stringify prints it.
JsonString(str) == <<"\"">> \o JsonEscape(str) \o <<"\"">>

\* A JSON array of strings as a property value, one element per line.
RECURSIVE JsonElements(_, _)
JsonElements(indent, strs) ==
  IF strs = <<>> THEN <<>>
  ELSE Spaces(indent) \o JsonString(Head(strs))
         \o (IF Len(strs) > 1 THEN <<",">> ELSE <<>>) \o <<NL>>
         \o JsonElements(indent, Tail(strs))

JsonArray(indent, strs) == <<"[", NL>> \o JsonElements(indent + 2, strs) \o Spaces(indent) \o <<"]">>

\* JSON.stringify({ level, message }, null, 2)
WriteArgsJson(level, message) ==
  <<"{", NL>> \o JsonLine(2, "level", JsonString(LevelText(level)), FALSE)
    \o JsonLine(2, "message", JsonString(message), TRUE) \o <<"}">>

\* One issue of a ZodError inside JSON.stringify(error, null, 2): its
\* properties in the order zod gives them.
IssueJson(issue) ==
  Spaces(4) \o <<"{", NL>> \o
  (CASE issue.code = "invalid_enum_value" ->
          JsonLine(6, "received", JsonString(<<issue.received>>), FALSE)
          \o JsonLine(6, "code", JsonString(<<issue.code>>), FALSE)
          \o JsonLine(6, "options",
                      JsonArray(6, <<<<"INFO">>, <<"WARN">>, <<"ERROR">>, <<"DEBUG">>>>), FALSE)
          \o JsonLine(6, "path", JsonArray(6, <<<<issue.path>>>>), FALSE)
          \o JsonLine(6, "message", JsonString(issue.message), TRUE)
     [] issue.code = "invalid_type" ->
          JsonLine(6, "code", JsonString(<<issue.code>>), FALSE)
          \o JsonLine(6, "expected", JsonString(<<issue.type>>), FALSE)
          \o JsonLine(6, "received", JsonString(<<issue.received>>), FALSE)
          \o JsonLine(6, "path", JsonArray(6, <<<<issue.path>>>>), FALSE)
          \o JsonLine(6, "message", JsonString(issue.message), TRUE)
     [] issue.code = "too_small" ->
          JsonLine(6, "code", JsonString(<<issue.code>>), FALSE)
          \o JsonLine(6, "minimum", <<IF issue.type = "string" THEN "1" ELSE "0">>, FALSE)
          \o JsonLine(6, "type", JsonString(<<issue.type>>), FALSE)
          \o JsonLine(6, "inclusive",
                      <<IF issue.type = "string" THEN "true" ELSE "false">>, FALSE)
          \o JsonLine(6, "exact", <<"false">>, FALSE)
          \o JsonLine(6, "message", JsonString(issue.message), FALSE)
          \o JsonLine(6, "path", JsonArray(6, <<<<issue.path>>>>), TRUE))
  \o Spaces(4) \o <<"}">>

\* The issues of a ZodError, parted by ",".
RECURSIVE IssuesJson(_)
IssuesJson(issues) ==
  IF issues = <<>> THEN <<>>
  ELSE IssueJson(Head(issues)) \o (IF Len(issues) > 1 THEN <<",">> ELSE <<>>) \o <<NL>>
         \o IssuesJson(Tail(issues))

\* The errno of a file system error code, as JSON prints the number.
ErrnoText(code) ==
  CASE code = "ENOENT" -> <<"-", "2">>
    [] code = "EIO" -> <<"-", "5">>
    [] code = "ENOTDIR" -> <<"-", "2", "0">>
    [] code = "EISDIR" -> <<"-", "2", "1">>
    [] code = "ENOSPC" -> <<"-", "2", "8">>

\* JSON.stringify(error, null, 2): the enumerable own properties of the error.
\* A file system error has errno, code, syscall and, when the call that
\* failed is open, path; a ZodError has issues and name; a plain Error has
\* none.
ErrorJson(error) ==
  CASE error.kind = "fs" ->
         <<"{", NL>>
         \o JsonLine(2, "errno", ErrnoText(error.code), FALSE)
         \o JsonLine(2, "code", JsonString(<<error.code>>), FALSE)
         \o JsonLine(2, "syscall", JsonString(<<error.syscall>>), error.syscall # "open")
         \o (IF error.syscall = "open"
               THEN JsonLine(2, "path", JsonString(PathText(error.path)), TRUE)
               ELSE <<>>)
         \o <<"}">>
    [] error.kind = "zod" ->
         <<"{", NL>> \o Spaces(2) \o <<"\"", "issues", "\"", ":", " ", "[", NL>>
           \o IssuesJson(error.issues)
           \o Spaces(2) \o <<"]", ",", NL>>
           \o JsonLine(2, "name", JsonString(<<"ZodError">>), TRUE)
           \o <<"}">>
    [] OTHER -> <<"{}">>

\* The line debugLog builds: `[${timestamp}] [DEBUG] ${message}`, followed by
\* ` ${JSON.stringify(obj, null, 2)}` when an object is given (json # <<>>).
DebugLine(message, json) ==
  FormatLine(NowISO, "DEBUG", message) \o (IF json = <<>> THEN <<>> ELSE <<" ">> \o json)

\* ------------------------------------------------------ the request handler

\* The state a handler run threads through its statements: the file system,
\* the source lines of the file system calls and of the dispatch it has
\* executed so far, and the mirror tasks it has handed to setImmediate.
Start(fs) == [fs |-> fs, steps |-> <<>>, mirror |-> <<>>]

\* What the handler gives back: outcome "return" (a tool result) or "throw"
\* (the promise rejects, and the SDK answers with an error).  tag names the
\* text of a result; entries and text are those of a listing.
Response(outcome, tag, level, path, entries, text, error) ==
  [outcome |-> outcome, tag |-> tag, level |-> level, path |-> path,
   entries |-> entries, text |-> text, error |-> error]

Return(tag, level, path, error) == Response("return", tag, level, path, <<>>, <<>>, error)
Throw(error) == Response("throw", "error", "", <<>>, <<>>, <<>>, error)

Done(m, resp) == [fs |-> m.fs, steps |-> m.steps, mirror |-> m.mirror, resp |-> resp]

\* debugLog(message, obj) called at `line`: fs.appendFileSync of the line to
\* GRAYLOG_DEBUG_FILE, with nothing around it to catch a failure.
debugLog(m, line, message, json, fault) ==
  LET code == AppendError(m.fs, GRAYLOG_DEBUG_FILE, line, fault)
  IN [ok |-> code = "",
      error |-> AppendFsError(code, GRAYLOG_DEBUG_FILE),
      m |-> [m EXCEPT !.steps = Append(@, line),
                      !.fs = AppendFileSyncEnding(@, GRAYLOG_DEBUG_FILE,
                                                  DebugLine(message, json) \o <<NL>>,
                                                  code, Room(fault, line))]]

\* The catch of the handler's outer try (lines 525-535).
OuterCatch(m, error, fault) ==
  LET d == debugLog(m, 526, <<"Error handling request:">>, ErrorJson(error), fault)
  IN IF ~d.ok THEN Done(d.m, Throw(d.error))
     ELSE IF error.kind = "zod" THEN Done(d.m, Throw(InvalidArgumentsError(error)))
     ELSE Done(d.m, Throw(error))

\* The catch of the write-log branch's inner try (lines 437-447).
WriteCatch(m, error, fault) ==
  LET d == debugLog(m, 438, <<"Error writing to log file:">>, ErrorJson(error), fault)
  IN IF ~d.ok THEN OuterCatch(d.m, d.error, fault)
     ELSE Done(d.m, Return("Failed to write log entry", "", <<>>, error))

\* The task the write-log branch hands to setImmediate (lines 414-426).
MirrorTask(level, message, logTimestamp) ==
  [winstonLevel |-> logLevelMapping(level), message |-> message,
   timestamp |-> logTimestamp, level |-> level]

\* The write-log branch (lines 399-447).
WriteLog(m, args, fault) ==
  LET parsed == WriteLogParse(args)
      level == parsed.level
      message == parsed.message
  IN IF parsed.issues # <<>> THEN OuterCatch(m, ZodError(parsed.issues), fault)
     ELSE
       LET d402 == debugLog(m, 402, <<"Processing write-log request">>,
                            WriteArgsJson(level, message), fault)
           logTimestamp == IF IsSome(parsed.timestamp) /\ Val(parsed.timestamp) # <<>>
                             THEN Val(parsed.timestamp) ELSE NowISO
           logFilePath == ResolveLogFile(parsed.logFile)
           logEntry == FormatEntry(logTimestamp, level, message)
           code410 == AppendError(d402.m.fs, logFilePath, 410, fault)
           m410 == [d402.m EXCEPT !.steps = Append(@, 410),
                                  !.fs = AppendFileSyncEnding(@, logFilePath, logEntry,
                                                              code410, Room(fault, 410))]
           d411 == debugLog(m410, 411, <<"Log entry written to file: ">>
                                         \o PathText(logFilePath), <<>>, fault)
           m414 == [d411.m EXCEPT !.steps = Append(@, 414),
                                  !.mirror = Append(@, MirrorTask(level, message, logTimestamp))]
           d428 == debugLog(m414, 428, <<"Immediately returning success response">>, <<>>, fault)
       IN IF ~d402.ok THEN OuterCatch(d402.m, d402.error, fault)
          ELSE IF code410 # "" THEN WriteCatch(m410, AppendFsError(code410, logFilePath), fault)
          ELSE IF ~d411.ok THEN WriteCatch(d411.m, d411.error, fault)
          ELSE IF ~d428.ok THEN WriteCatch(d428.m, d428.error, fault)
          ELSE Done(d428.m, Return("Successfully wrote log entry with level", level,
                                   logFilePath, NoError))

\* The catch of the read-logs branch's inner try (lines 511-521).
ReadCatch(m, error, fault) ==
  LET d == debugLog(m, 512, <<"Error reading log file:">>, ErrorJson(error), fault)
  IN IF ~d.ok THEN OuterCatch(d.m, d.error, fault)
     ELSE Done(d.m, Return("Failed to read log entries", "", <<>>, error))

\* logLines: fileContent.split("\n").filter((line) => line.trim() !== "")
LogLines(fileContent) == SelectSeq(SplitLines(fileContent), NonBlank)

\* filteredLines: level ? logLines.filter((line) => line.includes(`[${level}]`)) : logLines
FilteredLines(logLines, level) ==
  IF IsSome(level)
    THEN LET HasTag(line) == Includes(line, LevelTag(Val(level)))
         IN SelectSeq(logLines, HasTag)
    ELSE logLines

\* recentEntries: filteredLines.slice(-maxEntries)
RecentEntries(fileContent, maxEntries, level) ==
  SliceLast(FilteredLines(LogLines(fileContent), level), maxEntries)

\* `Recent log entries:\n\n${cleanEntries.join("\n")}`
LogsText(cleanEntries) == <<"Recent log entries:", NL, NL>> \o JoinLines(cleanEntries)

\* The read-logs branch (lines 448-521).
ReadLogs(m, args, fault) ==
  LET parsed == ReadLogsParse(args)
  IN IF parsed.issues # <<>> THEN OuterCatch(m, ZodError(parsed.issues), fault)
     ELSE
       LET d451 == debugLog(m, 451, <<"Processing read-logs request">>, <<>>, fault)
           logFilePath == ResolveLogFile(parsed.logFile)
           m458 == [d451.m EXCEPT !.steps = Append(@, 458)]
           code470 == ReadError(m458.fs, logFilePath, 470, fault)
           m470 == [m458 EXCEPT !.steps = Append(@, 470)]
           recentEntries == RecentEntries(m470.fs[logFilePath], parsed.maxEntries, parsed.level)
           cleanEntries == MapStrip(recentEntries)
           d502 == debugLog(m470, 502, <<"Returning log entries">>, <<>>, fault)
       IN IF ~d451.ok THEN OuterCatch(d451.m, d451.error, fault)
          ELSE IF ~ExistsSync(m458.fs, logFilePath)
            THEN Done(m458, Return("Log file not found", "", logFilePath, NoError))
          ELSE IF code470 # "" THEN ReadCatch(m470, ReadFsError(code470, logFilePath), fault)
          ELSE IF Len(recentEntries) = 0
            THEN Done(m470, Return("No log entries found matching criteria", "",
                                   logFilePath, NoError))
          ELSE IF ~d502.ok THEN ReadCatch(d502.m, d502.error, fault)
          ELSE Done(d502.m, Response("return", "Recent log entries", "", logFilePath,
                                     cleanEntries, LogsText(cleanEntries), NoError))

\* The handler with its last branch taken for read-logs: a name that is not
\* write-log is read as read-logs.
CallToolElseReads(fs, request, fault) ==
  LET d396 == debugLog(Start(fs), 396,
                       <<"Handling tools/call request for ", request.name>>, <<>>, fault)
  IN IF ~d396.ok THEN Done(d396.m, Throw(d396.error))
     ELSE IF request.name = "write-log" THEN WriteLog(d396.m, request.args, fault)
     ELSE ReadLogs(d396.m, request.args, fault)

\* The CallToolRequestSchema handler (lines 393-536).  The first debugLog is
\* outside the try: its failure rejects the handler's promise at once.
CallTool(fs, request, fault) ==
  LET d396 == debugLog(Start(fs), 396,
                       <<"Handling tools/call request for ", request.name>>, <<>>, fault)
  IN IF ~d396.ok THEN Done(d396.m, Throw(d396.error))
     ELSE IF request.name = "write-log" THEN WriteLog(d396.m, request.args, fault)
     ELSE IF request.name = "read-logs" THEN ReadLogs(d396.m, request.args, fault)
     ELSE OuterCatch(d396.m, UnknownToolError(request.name), fault)

\* The ListToolsRequestSchema handler (lines 208-266): debugLog, then the
\* list of the two tools.
ListTools(fs, fault) ==
  LET d210 == debugLog(Start(fs), 210, <<"Handling tools/list request">>, <<>>, fault)
  IN IF ~d210.ok THEN Done(d210.m, Throw(d210.error))
     ELSE Done(d210.m, Return("tools", "", <<>>, NoError))

\* The ListResourcesRequestSchema handler (lines 384-390): debugLog, then
\* the empty list of resources.
ListResources(fs, fault) ==
  LET d386 == debugLog(Start(fs), 386, <<"Handling resources/list request">>, <<>>, fault)
  IN IF ~d386.ok THEN Done(d386.m, Throw(d386.error))
     ELSE Done(d386.m, Return("resources", "", <<>>, NoError))

\* The handler the server has registered for a method.
Dispatch(fs, method, request, fault) ==
  CASE method = "tools/call" -> CallTool(fs, request, fault)
    [] method = "tools/list" -> ListTools(fs, fault)
    [] method = "resources/list" -> ListResources(fs, fault)

\* ---------------------------------------------------------------- the mirror

\* The levels of a winston logger (npm levels); a logger created without a
\* level logs what is at most as verbose as "info".
WinstonRank(winstonLevel) ==
  CASE winstonLevel = "error" -> 0
    [] winstonLevel = "warn" -> 1
    [] winstonLevel = "info" -> 2
    [] winstonLevel = "debug" -> 5

LoggerPasses(winstonLevel) == WinstonRank(winstonLevel) <= WinstonRank("info")

\* The info object DebugTransport.log receives for remoteLogger.log(winstonLevel,
\* message, { timestamp, level, source, project }): the properties of the
\* metadata in their order, level replaced by the winston level, message put
\* last, and timestamp set anew by the logger's winston.format.timestamp().
\* JSON.stringify({ level: info.level, message: info.message, metadata: info }, null, 2)
\* prints it as a nested object.
WinstonJson(task) ==
  <<"{", NL>>
    \o JsonLine(2, "level", JsonString(<<task.winstonLevel>>), FALSE)
    \o JsonLine(2, "message", JsonString(task.message), FALSE)
    \o Spaces(2) \o <<"\"", "metadata", "\"", ":", " ", "{", NL>>
    \o JsonLine(4, "timestamp", JsonString(NowISO), FALSE)
    \o JsonLine(4, "level", JsonString(<<task.winstonLevel>>), FALSE)
    \o JsonLine(4, "source", JsonString(<<"mcp-server">>), FALSE)
    \o JsonLine(4, "project", JsonString(<<"Agents">>), FALSE)
    \o JsonLine(4, "message", JsonString(task.message), TRUE)
    \o Spaces(2) \o <<"}", NL, "}">>

\* The callback without its try/catch: an exception of the call leaves it.
MirrorCallbackUncaught(fs, task, outcome, fault) ==
  IF outcome # "throws" /\ LoggerPasses(task.winstonLevel)
    THEN LET d == debugLog(Start(fs), 85, <<"Winston log call:">>, WinstonJson(task), fault)
             threw == ~d.ok \/ outcome = "throws late"
         IN [fs |-> d.m.fs, called |-> TRUE, threw |-> threw, uncaught |-> threw]
    ELSE [fs |-> fs, called |-> TRUE, threw |-> outcome # "sent",
          uncaught |-> outcome # "sent"]

\* The setImmediate callback of the write-log branch (lines 414-426):
\* remoteLogger.log inside try/catch.  outcome is what the logger and its
\* other transports do with the call: "sent" (the entry is taken),
\* "throws" (the call throws before DebugTransport.log is reached) or
\* "throws late" (the call throws after DebugTransport.log has run).  Unless
\* the call throws before it, DebugTransport.log calls debugLog at line 85
\* when the logger's level lets the entry through; a failure of that append
\* is thrown inside the call as well, after the part of the line that fits
\* is written.  The catch at line 423 swallows every exception and records
\* nothing.  uncaught tells whether an exception leaves the callback.
MirrorCallback(fs, task, outcome, fault) ==
  IF outcome # "throws" /\ LoggerPasses(task.winstonLevel)
    THEN LET d == debugLog(Start(fs), 85, <<"Winston log call:">>, WinstonJson(task), fault)
         IN [fs |-> d.m.fs, called |-> TRUE, threw |-> ~d.ok \/ outcome = "throws late",
             uncaught |-> FALSE]
    ELSE [fs |-> fs, called |-> TRUE, threw |-> outcome # "sent", uncaught |-> FALSE]

\* ------------------------------------------------------------------- inputs

Args(level, message, timestamp, logFile, maxEntries) ==
  [level |-> level, message |-> message, timestamp |-> timestamp,
   logFile |-> logFile, maxEntries |-> maxEntries]

Request(name, args) == [name |-> name, args |-> args]

MsgA == <<"a">>
\* The message "[ERROR]".
MsgTag == <<"[", "E", "R", "R", "O", "R", "]">>
\* A message of two lines.
MsgTwoLines == <<"a", NL, "b">>
\* A message with a colour code: ESC [ 3 1 m a.
MsgAnsi == <<ESC, "[", "3", "1", "m", "a">>
T1 == <<"t", "1">>
SvcLog == <<"svc.log">>
DebugLogName == <<"graylog_debug.log">>
\* A name whose directory does not exist.
SubLog == <<"sub", "x.log">>
\* A name below svc.log, which is a regular file once it exists.
BelowSvcLog == <<"svc.log", "x.log">>
\* The log directory itself.
DotName == <<".">>
\* The root directory, two levels above the log directory.
RootName == <<"..", "..">>

\* The arguments of the write-log requests the transport delivers.  Files:
\* svc.log, the default file (no name), the diagnostic file, a name in a
\* directory that does not exist, a name below a file, the root directory.
\* The last one fails validation twice.
WriteArgs ==
  {Args(None, Some(MsgTag), Some(T1), Some(SvcLog), None),
   Args(Some("ERROR"), Some(MsgA), Some(T1), Some(SvcLog), None),
   Args(Some("ERROR"), Some(MsgTwoLines), Some(T1), Some(SvcLog), None),
   Args(Some("INFO"), Some(MsgAnsi), Some(<<>>), None, None),
   Args(Some("DEBUG"), Some(MsgA), None, Some(DebugLogName), None),
   Args(Some("ERROR"), Some(MsgA), Some(T1), Some(SubLog), None),
   Args(Some("ERROR"), Some(MsgA), Some(T1), Some(BelowSvcLog), None),
   Args(Some("ERROR"), Some(MsgA), Some(T1), Some(RootName), None),
   Args(Some("FATAL"), None, Some(T1), Some(SvcLog), None)}

\* The arguments of the read-logs requests.  Some(1) is the number 0.5.
ReadArgs ==
  {Args(None, None, None, Some(SvcLog), Some(Num(1))),
   Args(Some("ERROR"), None, None, Some(SvcLog), Some(Num(1))),
   Args(None, None, None, Some(SvcLog), None),
   Args(None, None, None, Some(SvcLog), Some(1)),
   Args(Some("DEBUG"), None, None, Some(DebugLogName), None),
   Args(Some("WARN"), None, None, None, Some(Num(2))),
   Args(Some("INFO"), None, None, None, Some(Num(2))),
   Args(None, None, None, Some(DotName), None),
   Args(Some("FATAL"), None, None, Some(SvcLog), Some(Num(0)))}

\* The requests during which a file system call fails from outside, each
\* with its failing calls: on a device that takes nothing more, or that
\* takes the first six characters of what is appended.
BaseWrite == Args(Some("ERROR"), Some(MsgA), Some(T1), Some(SvcLog), None)
BaseRead == Args(None, None, None, Some(SvcLog), Some(Num(1)))

FaultyCalls ==
  {<<Request("write-log", BaseWrite), f>> :
     f \in {Full({396}), Full({410}), {<<410, 6>>}, Full({411}), {<<411, 6>>},
            Full({428, 438})}}
  \cup {<<Request("write-log", Args(Some("FATAL"), None, Some(T1), Some(SvcLog), None)),
          Full({526})>>}
  \cup {<<Request("read-logs", BaseRead), f>> :
          f \in {Full({451}), {<<451, 6>>}, Full({470}), Full({502})}}
  \cup {<<Request("delete-log", Args(None, None, None, None, None)), Full({526})>>}

\* What a run of the setImmediate callback meets: the outcome of the call
\* for the logger and its other transports, and the failing calls.
MirrorRuns ==
  {<<"sent", {}>>, <<"sent", {<<85, 6>>}>>, <<"throws", {}>>, <<"throws late", {}>>}

\* A log file left by an earlier run of the server.
OldLog == FormatEntry(<<"t", "0">>, "ERROR", <<"o">>)

\* A log file left with nothing but blank lines.
BlankLog == <<NL, " ", NL>>

\* JSON.stringify(graylogOptions, null, 2) (lines 97-115).
GraylogOptionsJson ==
  <<"{", NL>>
    \o JsonLine(2, "name", JsonString(<<"Graylog">>), FALSE)
    \o JsonLine(2, "level", JsonString(<<"info">>), FALSE)
    \o JsonLine(2, "silent", <<"false">>, FALSE)
    \o JsonLine(2, "handleExceptions", <<"true">>, FALSE)
    \o Spaces(2) \o <<"\"", "graylog", "\"", ":", " ", "{", NL>>
    \o Spaces(4) \o <<"\"", "servers", "\"", ":", " ", "[", NL>>
    \o Spaces(6) \o <<"{", NL>>
    \o JsonLine(8, "host", JsonString(<<"graylog.fusiontech.global">>), FALSE)
    \o JsonLine(8, "port", <<"12201">>, TRUE)
    \o Spaces(6) \o <<"}", NL>>
    \o Spaces(4) \o <<"]", ",", NL>>
    \o JsonLine(4, "hostname", JsonString(<<"mcp-server-logging">>), FALSE)
    \o JsonLine(4, "project", JsonString(<<"Agents">>), FALSE)
    \o JsonLine(4, "bufferSize", <<"1400">>, FALSE)
    \o JsonLine(4, "connectionTimeout", <<"10000">>, TRUE)
    \o Spaces(2) \o <<"}", ",", NL>>
    \o Spaces(2) \o <<"\"", "staticMeta", "\"", ":", " ", "{", NL>>
    \o JsonLine(4, "application", JsonString(<<"mcp-logging-service">>), FALSE)
    \o JsonLine(4, "environment", JsonString(<<"development">>), TRUE)
    \o Spaces(2) \o <<"}", ",", NL>>
    \o JsonLine(2, "debug", <<"true">>, TRUE)
    \o <<"}">>

\* What debugLog appends from the load of the module to the moment the
\* server takes requests: the lines of 75, 117, 149, 152 and 551.
StartupDebugLog ==
  DebugLine(<<"Setting up Graylog connection...">>, <<>>) \o <<NL>>
  \o DebugLine(<<"Graylog configuration:">>, GraylogOptionsJson) \o <<NL>>
  \o DebugLine(<<"Skipping direct Graylog test message to avoid formatting issues">>, <<>>) \o <<NL>>
  \o DebugLine(<<"Graylog logger initialized successfully">>, <<>>) \o <<NL>>
  \o DebugLine(<<"Server started - ready to handle requests">>, <<>>) \o <<NL>>

\* The files of a first start in an empty install directory.
FreshStart == (GRAYLOG_DEBUG_FILE :> StartupDebugLog)

\* The files an earlier run of the server left: it started fresh, took the
\* write-log request of OldLog and ran its mirror callback.
EarlierRun ==
  LET r == CallTool(FreshStart,
                    Request("write-log", Args(Some("ERROR"), Some(<<"o">>), Some(<<"t", "0">>),
                                              Some(SvcLog), None)),
                    {})
  IN MirrorCallback(r.fs, r.mirror[1], "sent", {}).fs

\* The files of a start after the earlier run: debugLog appends the
\* start-up lines to the diagnostic file that run left.
StartAfterEarlierRun ==
  [EarlierRun EXCEPT ![GRAYLOG_DEBUG_FILE] = @ \o StartupDebugLog]

\* The files of a first start with a svc.log of blank lines put in place.
StartWithBlankLog == FreshStart @@ (LOG_DIR \o SvcLog :> BlankLog)

\* ------------------------------------------------------------ state machine

VARIABLES
  files,     \* the regular files: path -> content
  pending,   \* the setImmediate queue: mirror tasks not yet run
  draining,  \* the event loop is running the setImmediate queue
  attempts,  \* the remoteLogger.log calls made so far, with their outcome
  handled,   \* the number of requests handled so far
  written,   \* the entries of the write-log requests answered with success
  last,      \* the request handled last, with its response
  start,     \* the start of the server: "fresh", "after earlier run", "blank log"
  alive      \* the process is running

vars == <<files, pending, draining, attempts, handled, written, last, start, alive>>

NoRequest == Request("", Args(None, None, None, None, None))

\* The files as they are when the server begins to take requests.
StartFiles(s) ==
  CASE s = "fresh" -> FreshStart
    [] s = "after earlier run" -> StartAfterEarlierRun
    [] s = "blank log" -> StartWithBlankLog

initial == StartFiles(start)

Init ==
  /\ start \in {"fresh", "after earlier run", "blank log"}
  /\ files = StartFiles(start)
  /\ pending = <<>>
  /\ draining = FALSE
  /\ attempts = <<>>
  /\ handled = 0
  /\ written = <<>>
  /\ last = [id |-> 0, method |-> "", request |-> NoRequest, fault |-> {},
             resp |-> Return("", "", <<>>, NoError),
             steps |-> <<>>, before |-> files, after |-> files, dispatched |-> 0]
  /\ alive = TRUE

\* The handler runs from its first statement to its return without yielding:
\* it is an async function that awaits nothing.  The requests of one chunk
\* of input are all handled before the event loop reaches the setImmediate
\* queue, and that queue is run to its end before more input is read.
HandleMethod(method, request, fault, max) ==
  /\ alive
  /\ ~draining
  /\ handled < max
  /\ \E r \in {Dispatch(files, method, request, fault)} :
     LET id == handled + 1
         parsed == WriteLogParse(request.args)
     IN /\ files' = r.fs
        /\ pending' = pending \o [i \in 1..Len(r.mirror) |-> [id |-> id, task |-> r.mirror[i]]]
        /\ handled' = id
        /\ written' = IF r.resp.tag = "Successfully wrote log entry with level"
                        THEN Append(written, [id |-> id, path |-> r.resp.path,
                                              level |-> parsed.level,
                                              message |-> parsed.message,
                                              timestamp |-> parsed.timestamp])
                        ELSE written
        /\ last' = [id |-> id, method |-> method, request |-> request, fault |-> fault,
                    resp |-> r.resp,
                    steps |-> r.steps, before |-> files, after |-> r.fs,
                    dispatched |-> Len(r.mirror)]
  /\ UNCHANGED <<draining, attempts, start, alive>>

\* A tools/call request.
Handle(request, fault, max) == HandleMethod("tools/call", request, fault, max)

HandleWriteLog == \E args \in WriteArgs : Handle(Request("write-log", args), {}, MaxRequests)

HandleReadLogs == \E args \in ReadArgs : Handle(Request("read-logs", args), {}, MaxRequests)

HandleUnknown ==
  Handle(Request("delete-log", Args(None, None, None, None, None)), {}, MaxRequests)

HandleWithFault == \E c \in FaultyCalls : Handle(c[1], c[2], MaxRequests)

\* A tools/list request, its diagnostic append succeeding or failing.
HandleListTools ==
  \E fault \in {{}, Full({210})} : HandleMethod("tools/list", NoRequest, fault, MaxRequests)

\* A resources/list request, its diagnostic append succeeding or failing.
HandleListResources ==
  \E fault \in {{}, Full({386})} : HandleMethod("resources/list", NoRequest, fault, MaxRequests)

\* The callback run again after a call that threw: the task stays at the
\* head of the queue.
RunMirrorRetrying ==
  /\ alive
  /\ pending # <<>>
  /\ \E run \in MirrorRuns :
       \E r \in {MirrorCallback(files, Head(pending).task, run[1], run[2])} :
          /\ files' = r.fs
          /\ attempts' = Append(attempts, [id |-> Head(pending).id, outcome |-> run[1],
                                           threw |-> r.threw,
                                           winstonLevel |-> Head(pending).task.winstonLevel])
          /\ alive' = (alive /\ ~r.uncaught)
          /\ pending' = IF r.threw THEN pending ELSE Tail(pending)
          /\ draining' = (pending' # <<>>)
  /\ UNCHANGED <<handled, written, last, start>>

\* The event loop runs the oldest setImmediate callback.
RunMirror ==
  /\ alive
  /\ pending # <<>>
  /\ \E run \in MirrorRuns :
       \E r \in {MirrorCallback(files, Head(pending).task, run[1], run[2])} :
          /\ files' = r.fs
          /\ attempts' = Append(attempts, [id |-> Head(pending).id, outcome |-> run[1],
                                           threw |-> r.threw,
                                           winstonLevel |-> Head(pending).task.winstonLevel])
          /\ alive' = (alive /\ ~r.uncaught)
  /\ pending' = Tail(pending)
  /\ draining' = (Tail(pending) # <<>>)
  /\ UNCHANGED <<handled, written, last, start>>

Next ==
  \/ HandleWriteLog
  \/ HandleReadLogs
  \/ HandleUnknown
  \/ HandleWithFault
  \/ HandleListTools
  \/ HandleListResources
  \/ RunMirror

Spec == Init /\ [][Next]_vars

\* Longer runs on one file: valid writes to svc.log and unfiltered reads of it.
TailWriteArgs ==
  {a \in WriteArgs : a.logFile = Some(SvcLog) /\ WriteLogParse(a).issues = <<>>}

TailReadArgs ==
  {a \in ReadArgs : a.logFile = Some(SvcLog) /\ a.level = None /\ ReadLogsParse(a).issues = <<>>}

TailWrite == \E args \in TailWriteArgs : Handle(Request("write-log", args), {}, MaxTail)

TailRead == \E args \in TailReadArgs : Handle(Request("read-logs", args), {}, MaxTail)

NextTail == TailWrite \/ TailRead \/ RunMirror

SpecTail == Init /\ [][NextTail]_vars

\* ------------------------------------------------------------ properties

Range(seq) == {seq[i] : i \in 1..Len(seq)}

ContentOf(fs, p) == IF p \in DOMAIN fs THEN fs[p] ELSE <<>>

\* The lines of a file: the pieces between its line breaks, without the
\* empty piece that follows a final line break.
FileLines(content) ==
  LET pieces == SplitLines(content)
  IN IF pieces[Len(pieces)] = <<>> THEN SubSeq(pieces, 1, Len(pieces) - 1) ELSE pieces

\* The file a request names.
TargetOf(request) == ResolveLogFile(request.args.logFile)

\* The values a write-log request asks for: its timestamp (the current time
\* when it gives none), its level (INFO when it gives none), its message.
AskedTimestamp(timestamp) ==
  IF IsSome(timestamp) /\ Val(timestamp) # <<>> THEN Val(timestamp) ELSE NowISO

AskedLevel(level) == IF IsSome(level) THEN Val(level) ELSE "INFO"

\* The one line `[<timestamp>] [<level>] <message>` of an entry.
EntryLine(timestamp, level, message) ==
  <<"[">> \o AskedTimestamp(timestamp) \o <<"]", " ", "[">> \o LevelText(level)
    \o <<"]", " ">> \o message

LastIsWrite == last.request.name = "write-log"
LastIsRead == last.request.name = "read-logs"
LastReturned(tag) == last.resp.outcome = "return" /\ last.resp.tag = tag
WroteOK == LastIsWrite /\ LastReturned("Successfully wrote log entry with level")
ListedOK == LastIsRead /\ LastReturned("Recent log entries")

\* The entries written with success to file p, oldest first, as lines.
WrittenTo(p) ==
  LET ToP(w) == w.path = p
      ws == SelectSeq(written, ToP)
  IN [i \in 1..Len(ws) |-> EntryLine(ws[i].timestamp, ws[i].level, ws[i].message)]

\* The last k elements of a sequence.
LastK(seq, k) == SubSeq(seq, Len(seq) - k + 1, Len(seq))

\* C1: a write-log request that passes validation and reports success adds
\* exactly one line to its target file, and that line is
\* `[<timestamp>] [<level>] <message>` with the values of the request.
C1_WriteAddsExactlyOneLine ==
  WroteOK =>
    LET a == last.request.args
        p == TargetOf(last.request)
    IN FileLines(ContentOf(last.after, p))
         = Append(FileLines(ContentOf(last.before, p)),
                  EntryLine(a.timestamp, AskedLevel(a.level), Val(a.message)))

\* C2: after N successful writes to one file, a read of it with maxEntries = k,
\* 0 < k < N, and no level filter returns exactly the last k written
\* entries, in the order in which they were written.
C2_ReadReturnsLastKWritten ==
  LET a == last.request.args
      entries == WrittenTo(TargetOf(last.request))
      k2 == Val(a.maxEntries)
  IN (/\ LastIsRead
      /\ ~IsSome(a.level)
      /\ IsSome(a.maxEntries)
      /\ k2 % 2 = 0 /\ 0 < k2 /\ k2 < 2 * Len(entries))
     => /\ ListedOK
        /\ last.resp.entries = LastK(entries, k2 \div 2)

\* The second bracketed field of a line `[<timestamp>] [<level>] ...`, <<>>
\* when the line has not that form.
LevelField(line) ==
  LET closes == {i \in 1..Len(line) : line[i] = "]"}
      Least(S) == CHOOSE i \in S : \A j \in S : i <= j
  IN IF Len(line) = 0 \/ line[1] # "[" \/ closes = {} THEN <<>>
     ELSE LET c1 == Least(closes)
              later == {i \in closes : i > c1 + 2}
          IN IF c1 + 2 > Len(line) \/ line[c1 + 1] # " " \/ line[c1 + 2] # "[" \/ later = {}
               THEN <<>>
               ELSE SubSeq(line, c1 + 3, Least(later) - 1)

\* C3: a read with a level filter L returns only entries whose level field
\* (the second bracketed field of the line) is L.
C3_FilterMatchesLevelField ==
  (LastIsRead /\ last.resp.outcome = "return" /\ IsSome(last.request.args.level))
    => \A i \in 1..Len(last.resp.entries) :
         LevelField(last.resp.entries[i]) = LevelText(Val(last.request.args.level))

\* The append of line 410 was made and succeeded.
AppendSucceeded ==
  /\ LastIsWrite
  /\ 410 \in Range(last.steps)
  /\ AppendError(last.before, TargetOf(last.request), 410, last.fault) = ""

\* The write-log requests answered with success.
WrittenIds == {written[i].id : i \in 1..Len(written)}

\* C4: a failure of the remote mirror leaves the write that triggered it a
\* success: every write whose forwarding call threw (its local append had
\* succeeded, or the call would not have been scheduled) was answered with
\* success, and the exception ends neither the request nor the process.
C4_MirrorFailureKeepsSuccess ==
  /\ alive
  /\ \A i \in 1..Len(attempts) : attempts[i].threw => attempts[i].id \in WrittenIds

\* C5: when all N requests handled so far (N >= 2) are writes to one file,
\* in whatever order their handlers and mirror callbacks ran, the file holds
\* its former lines and exactly N more, one well-formed line per request.
C5_ConcurrentWritesWholeLines ==
  \A w \in Range(written) :
    (handled >= 2 /\ Len(WrittenTo(w.path)) = handled)
      => FileLines(ContentOf(files, w.path))
           = FileLines(ContentOf(initial, w.path)) \o WrittenTo(w.path)

\* C6: a successful write(level = L, message = m, logFile = f) immediately
\* followed by read(maxEntries = 1, level = L, logFile = f) returns exactly
\* one entry, the line just written.
C6_WriteThenReadOne ==
  LET a == last.request.args
      w == written[Len(written)]
  IN (/\ LastIsRead
      /\ a.maxEntries = Some(Num(1))
      /\ written # <<>>
      /\ w.id = last.id - 1
      /\ w.path = TargetOf(last.request)
      /\ a.level = Some(w.level))
     => /\ ListedOK
        /\ last.resp.entries = <<EntryLine(w.timestamp, w.level, w.message)>>

\* The read-logs handler tested the existence of its target (line 458) and
\* the target was not there.
ReadOfMissingFile ==
  /\ LastIsRead
  /\ ReadLogsParse(last.request.args).issues = <<>>
  /\ TargetOf(last.request) \notin DOMAIN last.before
  /\ TargetOf(last.request) \notin Dirs

\* C7: a read of a file that does not exist answers 'Log file not found'
\* with the path and no entry; it does not throw, does not create the file,
\* and the server goes on serving requests.
C7_MissingFileReported ==
  ReadOfMissingFile =>
    /\ LastReturned("Log file not found")
    /\ last.resp.path = TargetOf(last.request)
    /\ last.resp.entries = <<>>
    /\ TargetOf(last.request) \notin DOMAIN last.after
    /\ TargetOf(last.request) \notin DOMAIN files
    /\ (handled < MaxRequests /\ ~draining) => ENABLED HandleReadLogs

\* The issues validation finds in the last request.
LastIssues ==
  IF LastIsWrite THEN WriteLogParse(last.request.args).issues
  ELSE IF LastIsRead THEN ReadLogsParse(last.request.args).issues
  ELSE <<>>

\* The files other than the diagnostic file.
LogFilesOf(fs) == [p \in DOMAIN fs \ {GRAYLOG_DEBUG_FILE} |-> fs[p]]

\* C8: a request whose arguments fail validation is answered with an error
\* naming each offending field path and message, and is not executed: no
\* log file is created or changed and no mirror call is dispatched.
C8_InvalidArgumentsReported ==
  (LastIssues # <<>> /\ 526 \in Range(last.steps))
    => /\ last.resp.outcome = "throw"
       /\ last.resp.error.kind = "invalidArgs"
       /\ last.resp.error.issues = LastIssues
       /\ LogFilesOf(last.after) = LogFilesOf(last.before)
       /\ last.dispatched = 0

\* C9: the number of entries a validated read-logs request returns is at
\* most maxEntries, which is a positive integer, 10 when omitted.
C9_AtMostMaxEntries ==
  LET a == last.request.args
      max2 == IF IsSome(a.maxEntries) THEN Val(a.maxEntries) ELSE Num(DefaultMaxEntries)
  IN (LastIsRead /\ LastIssues = <<>> /\ last.resp.outcome = "return")
       => /\ max2 % 2 = 0 /\ max2 > 0
          /\ 2 * Len(last.resp.entries) <= max2

\* A file system call of the last request failed.
LocalIOFailed ==
  \/ (LastIsWrite \/ LastIsRead) /\ Range(last.steps) \cap FailingLines(last.fault) # {}
  \/ /\ 410 \in Range(last.steps)
     /\ AppendError(last.before, TargetOf(last.request), 410, {}) # ""
  \/ /\ 470 \in Range(last.steps)
     /\ ReadError(last.after, TargetOf(last.request), 470, {}) # ""

\* C10: a local I/O failure during a write or a read, a failure of the
\* diagnostic-file append included, is returned to the caller as a failure
\* result carrying an error string; it is never thrown out of the handler
\* and never ends the process.
C10_LocalIOFailureReturned ==
  LocalIOFailed =>
    /\ last.resp.outcome = "return"
    /\ last.resp.tag \in {"Failed to write log entry", "Failed to read log entries"}
    /\ last.resp.error.kind = "fs"
    /\ alive

\* C11: a valid write whose target file, or the directory that is to contain
\* it, does not yet exist creates what is missing and appends the line,
\* reporting success (no file system call failing from outside).
C11_WriteCreatesFileAndDirectory ==
  LET a == last.request.args
      p == TargetOf(last.request)
  IN (/\ LastIsWrite
      /\ LastIssues = <<>>
      /\ last.fault = {}
      /\ p \notin DOMAIN last.before
      /\ p \notin Dirs)
     => /\ WroteOK
        /\ p \in DOMAIN last.after
        /\ ContentOf(last.after, p)
             = EntryLine(a.timestamp, AskedLevel(a.level), Val(a.message)) \o <<NL>>

\* The last request names an operation other than write-log and read-logs.
LastIsUnknown == last.method = "tools/call" /\ ~LastIsWrite /\ ~LastIsRead

\* C12 as stated: a request that names an operation other than write-log
\* and read-logs is answered with an error, and has no effect on any log
\* file, the diagnostic log included, or on the mirror.
C12_UnknownOperationNoEffect ==
  LastIsUnknown =>
    /\ last.resp.outcome = "throw"
    /\ last.after = last.before
    /\ last.dispatched = 0

\* C12 amended: a request that names an operation other than write-log and
\* read-logs is answered with an error (the unknown-tool error naming the
\* operation, when the diagnostic appends succeed); it creates no file,
\* changes no file but the diagnostic log graylog_debug.log, to which the
\* handler appends its diagnostic lines, and dispatches nothing to the
\* mirror.
C12_UnknownOperationRejected ==
  LastIsUnknown =>
    /\ last.resp.outcome = "throw"
    /\ last.resp.error.kind \in {"unknownTool", "fs"}
    /\ (last.fault = {} =>
          last.resp.error = UnknownToolError(last.request.name))
    /\ LogFilesOf(last.after) = LogFilesOf(last.before)
    /\ Len(last.after[GRAYLOG_DEBUG_FILE]) > Len(last.before[GRAYLOG_DEBUG_FILE])
    /\ SubSeq(last.after[GRAYLOG_DEBUG_FILE], 1, Len(last.before[GRAYLOG_DEBUG_FILE]))
         = last.before[GRAYLOG_DEBUG_FILE]
    /\ last.dispatched = 0
    /\ \A i \in 1..Len(pending) : pending[i].id # last.id
    /\ \A i \in 1..Len(attempts) : attempts[i].id # last.id

C12_Witness ==
  /\ LastIsUnknown
  /\ last.resp.outcome = "throw"
  /\ last.resp.error.kind = "unknownTool"
  /\ written # <<>>

\* What the last request put after the former content of file p.
AddedTo(p) ==
  SubSeq(ContentOf(last.after, p), Len(ContentOf(last.before, p)) + 1,
         Len(ContentOf(last.after, p)))

\* C13: a write-log request that omits level appends a line whose level
\* field is INFO and hands the entry to the mirror at the level info.
C13_OmittedLevelIsInfo ==
  LET a == last.request.args
      p == TargetOf(last.request)
      entry == EntryLine(a.timestamp, "INFO", Val(a.message))
  IN (WroteOK /\ a.level = None)
     => /\ Includes(AddedTo(p), entry \o <<NL>>)
        /\ LevelField(entry) = <<"I", "N", "F", "O">>
        /\ last.dispatched = 1
        /\ \/ \E i \in 1..Len(pending) :
                /\ pending[i].id = last.id
                /\ pending[i].task.winstonLevel = "info"
                /\ pending[i].task.level = "INFO"
           \/ \E i \in 1..Len(attempts) :
                /\ attempts[i].id = last.id
                /\ attempts[i].winstonLevel = "info"

C13_Witness ==
  /\ WroteOK
  /\ last.request.args.level = None
  /\ \E i \in 1..Len(attempts) : attempts[i].id = last.id /\ attempts[i].outcome = "sent"

\* The non-blank lines of a file that a read with the given level filter is
\* to return: all of them without a filter, those whose level field is the
\* level with one.
LinesOfLevel(content, level) ==
  LET Wanted(line) ==
        /\ NonBlank(line)
        /\ (IsSome(level) => LevelField(line) = LevelText(Val(level)))
  IN SelectSeq(SplitLines(content), Wanted)

\* C14: a read of an existing file whose filtered set is empty (empty file,
\* only blank lines, or no line of the requested level) returns the 'no
\* entries found' message with zero entries, not an error (no file system
\* call failing from outside).
C14_EmptyFilteredSetIsNoEntries ==
  LET a == last.request.args
      p == TargetOf(last.request)
  IN (/\ LastIsRead
      /\ LastIssues = <<>>
      /\ last.fault = {}
      /\ p \in DOMAIN last.before
      /\ LinesOfLevel(last.before[p], a.level) = <<>>)
     => /\ LastReturned("No log entries found matching criteria")
        /\ last.resp.entries = <<>>

PrefixOf(a, b) == Len(a) <= Len(b) /\ SubSeq(b, 1, Len(a)) = a

\* C15: log files are append-only: in every step, whatever request or
\* callback takes it and whether it succeeds or fails, every file stays,
\* its former content is a prefix of its new content, and every line it
\* held is still its line at the same place, unchanged.
C15_AppendOnly ==
  [][\A p \in DOMAIN files :
       /\ p \in DOMAIN files'
       /\ PrefixOf(files[p], files'[p])
       /\ PrefixOf(FileLines(files[p]), FileLines(files'[p]))]_vars

\* The requests for which remoteLogger.log was called or is yet to be called.
MirrorIds ==
  [i \in 1..(Len(attempts) + Len(pending)) |->
     IF i <= Len(attempts) THEN attempts[i].id ELSE pending[i - Len(attempts)].id]

\* C16: each write-log request causes at most one forwarding attempt, made
\* only if the local append succeeded and only after the handler has
\* answered; an attempt that failed is not made again.
C16_MirrorAtMostOnce ==
  /\ last.dispatched <= 1
  /\ (last.dispatched = 1 => (LastIsWrite /\ AppendSucceeded))
  /\ \A i, j \in 1..Len(MirrorIds) : MirrorIds[i] = MirrorIds[j] => i = j
  /\ \A i \in 1..Len(MirrorIds) : MirrorIds[i] <= handled

C16_Witness ==
  /\ pending = <<>>
  /\ Len(attempts) = MaxRequests
  /\ \E i \in 1..Len(attempts) : attempts[i].threw

\* The step is a forwarding call that threw.
ForwardingThrew ==
  /\ Len(attempts') = Len(attempts) + 1
  /\ attempts'[Len(attempts')].threw

\* What the step put after the former content of the diagnostic log.
DiagnosticAdded ==
  SubSeq(files'[GRAYLOG_DEBUG_FILE], Len(files[GRAYLOG_DEBUG_FILE]) + 1,
         Len(files'[GRAYLOG_DEBUG_FILE]))

\* The step of the oldest setImmediate callback leaves the diagnostic log
\* with its former content and, after it, nothing but the line of
\* DebugTransport.log for the entry, or a leading part of that line.
TransportLineOnly ==
  /\ pending # <<>>
  /\ PrefixOf(files[GRAYLOG_DEBUG_FILE], files'[GRAYLOG_DEBUG_FILE])
  /\ PrefixOf(DiagnosticAdded,
              DebugLine(<<"Winston log call:">>, WinstonJson(Head(pending).task)) \o <<NL>>)

\* C17 as stated: every exception raised while forwarding an entry is caught
\* inside the mirror and recorded in the diagnostic log, and is never
\* visible to the log store or to the caller of the write.
C17_MirrorExceptionsRecorded ==
  [][ForwardingThrew =>
       /\ alive'
       /\ ~TransportLineOnly
       /\ LogFilesOf(files') = LogFilesOf(files)
       /\ last' = last]_vars

\* C17 amended: every exception thrown by the forwarding call is caught
\* inside the mirror and discarded without a record of it: the step changes
\* no file but the diagnostic log, which gains at most the `Winston log
\* call` line (or the leading part of it that fits) written by the
\* transport before the exception, and neither the log store nor the caller
\* of the write sees the exception.
C17_MirrorExceptionsSwallowed ==
  [][ForwardingThrew =>
       /\ alive'
       /\ TransportLineOnly
       /\ LogFilesOf(files') = LogFilesOf(files)
       /\ last' = last
       /\ written' = written]_vars

C17_Witness ==
  /\ Len(attempts) = 1
  /\ attempts[1].threw
  /\ attempts[1].outcome = "throws late"
  /\ alive
  /\ files # last.after
  /\ WroteOK

\* A line with a character that is not white space.
Visible(line) == \E i \in 1..Len(line) : line[i] \notin {" ", "\t", "\r", "\n"}

\* C18 as stated: a read-logs request leaves every file under the base log
\* directory unchanged, and the entries it returns are, character for
\* character, non-blank lines of the target file as it stood when the
\* request arrived.
C18_ReadLeavesFilesUnchanged ==
  LET p == TargetOf(last.request)
      lines == SplitLines(ContentOf(last.before, p))
  IN LastIsRead =>
       /\ last.after = last.before
       /\ \A i \in 1..Len(last.resp.entries) :
            \E k \in 1..Len(lines) : Visible(lines[k]) /\ last.resp.entries[i] = lines[k]

\* C18 amended: a read-logs request leaves every file unchanged except the
\* diagnostic file, to which it only appends; the entries it returns are
\* non-blank lines of the target file as the handler read it, with the ANSI
\* colour sequences removed.
C18_ReadChangesOnlyDiagnosticFile ==
  LET p == TargetOf(last.request)
      lines == SplitLines(ContentOf(last.after, p))
  IN LastIsRead =>
       /\ LogFilesOf(last.after) = LogFilesOf(last.before)
       /\ GRAYLOG_DEBUG_FILE \in DOMAIN last.after
       /\ PrefixOf(last.before[GRAYLOG_DEBUG_FILE], last.after[GRAYLOG_DEBUG_FILE])
       /\ \A i \in 1..Len(last.resp.entries) :
            \E k \in 1..Len(lines) :
              Visible(lines[k]) /\ last.resp.entries[i] = stripAnsiCodes(lines[k])

C18_Witness ==
  /\ ListedOK
  /\ last.after[GRAYLOG_DEBUG_FILE] # last.before[GRAYLOG_DEBUG_FILE]
  /\ \E i \in 1..Len(last.resp.entries) :
       last.resp.entries[i] \notin Range(SplitLines(ContentOf(last.before, TargetOf(last.request))))

====
